---- MODULE Spec2Model ----
(***************************************************************************)
(* Order service analytics: the order store, the aggregation orchestrator  *)
(* (AnalyticsRepository.getAnalytics), the response shaper                  *)
(* (AnalyticsResponseMapper) and the consistency auditor                    *)
(* (AnalyticsValidationService), as a state machine.                        *)
(*                                                                         *)
(* Money is counted in thousandths of the currency unit (mills), so that   *)
(* the two-decimal rounding of toFixed(2) is a real conversion.  Every     *)
(* price of the catalogue is an even number of mills: no sum is ever       *)
(* exactly half a cent, where the binary representation of the JavaScript  *)
(* number would decide the rounding.                                       *)
(* A timestamp is a record [day, ms]: days since 1970-01-01 (UTC) and      *)
(* milliseconds within the day.                                            *)
(***************************************************************************)
EXTENDS Integers, Sequences, FiniteSets, TLC

\* ---------------------------------------------------------------- bounds
MaxOrders == 2
MaxTicks == 2
StepDays == 2
MaxInterleaved == 1

\* ------------------------------------------------------ program constants
MsPerDay == 86400000
DaysPerMonth == 30
MaxRangeMonths == 120
DefaultTop == 10
TOLERANCE_PERCENTAGE == 1
CRITICAL_THRESHOLD == 5
\* "Validar rango máximo (10 años)"
MaxRangeYears == 10

\* ---------------------------------------------------------------- calendar
\* Days since 1970-01-01 of the civil date y-m-d (proleptic Gregorian).
DaysFromCivil(y, m, d) ==
  LET yy  == IF m <= 2 THEN y - 1 ELSE y
      era == yy \div 400
      yoe == yy - era * 400
      mp  == IF m > 2 THEN m - 3 ELSE m + 9
      doy == (153 * mp + 2) \div 5 + d - 1
      doe == yoe * 365 + yoe \div 4 - yoe \div 100 + doy
  IN  era * 146097 + doe - 719468

\* The civil date [y, m, d] of a day number.
CivilFromDays(z0) ==
  LET z   == z0 + 719468
      era == z \div 146097
      doe == z - era * 146097
      yoe == (doe - doe \div 1460 + doe \div 36524 - doe \div 146096) \div 365
      doy == doe - (365 * yoe + yoe \div 4 - yoe \div 100)
      mp  == (5 * doy + 2) \div 153
      d   == doy - (153 * mp + 2) \div 5 + 1
      m   == IF mp < 10 THEN mp + 3 ELSE mp - 9
      y   == yoe + era * 400 + (IF m <= 2 THEN 1 ELSE 0)
  IN  [y |-> y, m |-> m, d |-> d]

\* ISO weekday, Monday = 1 .. Sunday = 7 (1970-01-01 was a Thursday).
IsoWeekday(day) == ((day + 3) % 7) + 1

\* %G and %V of $dateToString: the ISO week-numbering year and week.
IsoWeekDate(day) ==
  LET thursday == day - IsoWeekday(day) + 4
      gy       == CivilFromDays(thursday).y
  IN  [year |-> gy, week |-> (thursday - DaysFromCivil(gy, 1, 1)) \div 7 + 1]

\* ------------------------------------------------------------ period keys
\* A key is the sequence of the character codes of the string.
Dash == 45
DigitChar(n) == 48 + n

RECURSIVE Pad(_, _)
\* n in decimal, zero-padded to w digits (w digits suffice in the model).
Pad(n, w) == IF w = 0 THEN << >> ELSE Pad(n \div 10, w - 1) \o <<DigitChar(n % 10)>>

GroupBys == {"day", "week", "month", "year"}

\* DayGroupingStrategy.getPeriodExpression: %Y-%m-%d
DayPeriodExpression(t) ==
  LET c == CivilFromDays(t.day)
  IN  Pad(c.y, 4) \o <<Dash>> \o Pad(c.m, 2) \o <<Dash>> \o Pad(c.d, 2)

\* A week key built from the calendar year instead of the ISO year (%Y-%V).
WeekPeriodExpression_CalendarYear(t) ==
  Pad(CivilFromDays(t.day).y, 4) \o <<Dash>> \o Pad(IsoWeekDate(t.day).week, 2)

\* WeekGroupingStrategy.getPeriodExpression: %G-%V
WeekPeriodExpression(t) ==
  LET w == IsoWeekDate(t.day)
  IN  Pad(w.year, 4) \o <<Dash>> \o Pad(w.week, 2)

\* MonthGroupingStrategy.getPeriodExpression: %Y-%m
MonthPeriodExpression(t) ==
  LET c == CivilFromDays(t.day)
  IN  Pad(c.y, 4) \o <<Dash>> \o Pad(c.m, 2)

\* YearGroupingStrategy.getPeriodExpression: %Y
YearPeriodExpression(t) == Pad(CivilFromDays(t.day).y, 4)

\* GroupingStrategyFactory.create(groupBy).getPeriodExpression(), applied to
\* a creation timestamp; an unknown tag falls back to the month strategy.
PeriodExpr(groupBy, t) ==
  CASE groupBy = "day"   -> DayPeriodExpression(t)
    [] groupBy = "week"  -> WeekPeriodExpression(t)
    [] groupBy = "month" -> MonthPeriodExpression(t)
    [] groupBy = "year"  -> YearPeriodExpression(t)
    [] OTHER             -> MonthPeriodExpression(t)

\* ---------------------------------------------------------- formatPeriod
\* The local date of the Date object t in a process whose time zone is tz
\* minutes east of UTC: what getFullYear, getMonth and getDate read.
LocalDate(t, tz) ==
  CivilFromDays(t.day + ((t.ms + tz * 60000 + MsPerDay) \div MsPerDay) - 1)

\* DayGroupingStrategy.formatPeriod: date.toISOString().split('T')[0]
DayFormatPeriod(t, tz) ==
  LET c == CivilFromDays(t.day)
  IN  Pad(c.y, 4) \o <<Dash>> \o Pad(c.m, 2) \o <<Dash>> \o Pad(c.d, 2)

\* WeekGroupingStrategy.getWeekNumber: the local date taken as a UTC date,
\* moved to the Thursday of its week, counted in weeks from 1 January of
\* the Thursday's year.
getWeekNumber(t, tz) ==
  LET l         == LocalDate(t, tz)
      d         == DaysFromCivil(l.y, l.m, l.d)
      dayNum    == IF (d + 4) % 7 = 0 THEN 7 ELSE (d + 4) % 7
      thursday  == d + 4 - dayNum
      yearStart == DaysFromCivil(CivilFromDays(thursday).y, 1, 1)
  IN  ((thursday - yearStart + 1) + 6) \div 7

\* WeekGroupingStrategy.formatPeriod: date.getFullYear() and getWeekNumber
WeekFormatPeriod(t, tz) ==
  Pad(LocalDate(t, tz).y, 4) \o <<Dash>> \o Pad(getWeekNumber(t, tz), 2)

\* MonthGroupingStrategy.formatPeriod: getFullYear() and getMonth() + 1
MonthFormatPeriod(t, tz) ==
  LET l == LocalDate(t, tz)
  IN  Pad(l.y, 4) \o <<Dash>> \o Pad(l.m, 2)

\* YearGroupingStrategy.formatPeriod: String(date.getFullYear())
YearFormatPeriod(t, tz) == Pad(LocalDate(t, tz).y, 4)

\* GroupingStrategyFactory.create(groupBy).formatPeriod(date)
formatPeriod(groupBy, t, tz) ==
  CASE groupBy = "day"   -> DayFormatPeriod(t, tz)
    [] groupBy = "week"  -> WeekFormatPeriod(t, tz)
    [] groupBy = "month" -> MonthFormatPeriod(t, tz)
    [] groupBy = "year"  -> YearFormatPeriod(t, tz)
    [] OTHER             -> MonthFormatPeriod(t, tz)

\* Binary string comparison a < b, as $sort compares two string keys.
RECURSIVE LexLess(_, _)
LexLess(a, b) ==
  IF b = << >> THEN FALSE
  ELSE IF a = << >> THEN TRUE
  ELSE IF Head(a) # Head(b) THEN Head(a) < Head(b)
  ELSE LexLess(Tail(a), Tail(b))

\* ------------------------------------------------------------- timestamps
TsLeq(a, b) == a.day < b.day \/ (a.day = b.day /\ a.ms <= b.ms)

\* new Date(`${from}T00:00:00.000Z`) and new Date(`${to}T23:59:59.999Z`)
FromDate(day) == [day |-> day, ms |-> 0]
ToDate(day) == [day |-> day, ms |-> MsPerDay - 1]

\* The first instant of the model's clock: 2024-12-28 (a Saturday).
BaseDay == DaysFromCivil(2024, 12, 28)
LastDay == BaseDay + MaxTicks * StepDays

\* ------------------------------------------------------------ order store
\* The OrderStatus enum of models/Order, which is the enum of the schema's
\* status field and the type of the status updateOrderStatus takes.
OrderStatus == {"pending", "preparing", "ready", "delivered", "cancelled"}

\* An optional field is << >> (absent) or <<value>>.
Absent == << >>
IfNull(opt, other) == IF opt = Absent THEN other ELSE opt[1]

Pizza(q, p, up) ==
  [productId |-> <<"p-101">>, name |-> "Pizza", quantity |-> q, price |-> p, unitPrice |-> up]
Soda(q, p, up) ==
  [productId |-> Absent, name |-> "Gaseosa", quantity |-> q, price |-> p, unitPrice |-> up]
Pasta(q, p, up) ==
  [productId |-> <<"p-102">>, name |-> "Pasta", quantity |-> q, price |-> p, unitPrice |-> up]

\* The item lists createOrder is called with (prices in mills):
\*   two items, one priced below the cent, no unitPrice;
\*   one item whose unitPrice is about 1.003 % above its price;
\*   one item with price 0 and a positive unitPrice.
ItemLists ==
  { << Pizza(2, 4000, Absent), Soda(1, 1004, Absent) >>,
    << Pasta(1, 2990, <<3020>>) >>,
    << Pizza(1, 0, <<2000>>) >> }

RECURSIVE SumFn(_, _)
\* The sum of f[x] over the x of the finite set S.
SumFn(f, S) ==
  IF S = {} THEN 0
  ELSE LET x == CHOOSE y \in S : TRUE IN f[x] + SumFn(f, S \ {x})

\* items.reduce((sum, item) => sum + item.price * item.quantity, 0)
OrderTotal(items) ==
  SumFn([j \in DOMAIN items |-> items[j].price * items[j].quantity], DOMAIN items)

VARIABLES
  now,              \* the clock: the current instant
  orders,           \* the orders collection, in creation order; the index is the _id
  pc,               \* position of the running getAnalytics call
  query,            \* its AnalyticsQueryDTO
  series,           \* result of the series aggregate
  cancelledSeries,  \* result of the cancelled-series aggregate
  productsSold,     \* result of the products aggregate
  analytics,        \* what getAnalytics returned: << >> is null, <<dto>> a response
  errorCode,        \* code of the error getAnalytics threw, "" if none
  aggregateCalls,   \* orderModel.aggregate calls issued by the running call
  auditPc,          \* position of the running validateAnalyticsConsistency call
  discrepancies,    \* its discrepancies array
  validationResult, \* << >> or <<ValidationResult>> once it returned
  alerts,           \* alert messages emitted by sendCriticalAlert during the call
  interleaved,      \* store operations that ran since the running request began
  formatInput,      \* << >> or <<[date, tz, groupBy]>>: the formatPeriod call at hand
  formatOutput,     \* << >> or <<key>>: what formatPeriod returned
  csvPc,            \* position of the running streamCsv call
  csvColumns,       \* the columns of its CSVExportRequestDTO
  csvStream,        \* the chunks pushed to the Readable it returned, in order
  severityInput,    \* << >> or <<[metric, reportedValue, actualValue]>>: the calculateDiscrepancy call at hand
  severityOutput,   \* << >> or <<ValidationDiscrepancy>>: what calculateDiscrepancy returned
  cancellations,    \* the ordercancellations collection, in saving order
  events,           \* the order.cancelled events published, in order
  cancelCalls,      \* the running cancelOrder calls: position, arguments, the order as read
  cancelSaves,      \* the orders whose CANCELLED status a cancelOrder call has saved
  reviews,          \* the reviews collection: the status of each review
  reviewCall        \* the running changeReviewStatus call

vars ==
  << now, orders, pc, query, series, cancelledSeries, productsSold, analytics,
     errorCode, aggregateCalls, auditPc, discrepancies, validationResult, alerts,
     interleaved, formatInput, formatOutput, csvPc, csvColumns, csvStream,
     severityInput, severityOutput, cancellations, events, cancelCalls,
     cancelSaves, reviews, reviewCall >>

storeVars == << now, orders, interleaved >>
callVars ==
  << pc, query, series, cancelledSeries, productsSold, analytics, errorCode, aggregateCalls >>
auditVars == << auditPc, discrepancies, validationResult, alerts >>
formatVars == << formatInput, formatOutput >>
csvVars == << csvPc, csvColumns, csvStream >>
severityVars == << severityInput, severityOutput >>
cancelVars == << cancellations, events, cancelCalls, cancelSaves >>
reviewVars == << reviews, reviewCall >>

NoQuery == [from |-> 0, to |-> 0, groupBy |-> "", top |-> Absent]

\* ---------------------------------------------------- aggregation pipeline
\* A revenue filter that lets cancelled orders through.
REVENUE_STATUSES_WithCancelled == {"ready", "completed", "delivered", "cancelled"}

REVENUE_STATUSES == {"ready", "completed", "delivered"}
CANCELLED_STATUSES == {"cancelled"}

\* $match: createdAt within [fromDate, toDate] and status in the given set.
Match(os, fromDate, toDate, statuses) ==
  { i \in DOMAIN os :
      /\ TsLeq(fromDate, os[i].createdAt)
      /\ TsLeq(os[i].createdAt, toDate)
      /\ os[i].status \in statuses }

\* $unwind '$items': one row <<order, item index>> per line item.
Unwind(os, matched) == UNION { { <<i, j>> : j \in DOMAIN os[i].items } : i \in matched }

\* An item revenue that ignores unitPrice.
ItemRevenue_PriceOnly(item) == item.quantity * item.price

\* $multiply: ['$items.quantity', { $ifNull: ['$items.unitPrice', '$items.price'] }]
ItemRevenue(item) == item.quantity * IfNull(item.unitPrice, item.price)

\* $addFields period / itemRevenue, then $group by period with
\* $addToSet '$_id' and $sum '$itemRevenue', then $project with $size.
GroupByPeriod(os, rows, groupBy) ==
  LET period(r) == PeriodExpr(groupBy, os[r[1]].createdAt)
      keys == { period(r) : r \in rows }
      bucket(k) == { r \in rows : period(r) = k }
  IN  { [ _id |-> k,
          totalOrders |-> Cardinality({ r[1] : r \in bucket(k) }),
          totalRevenue |-> SumFn([r \in bucket(k) |->
                                   ItemRevenue(os[r[1]].items[r[2]])], bucket(k)) ]
        : k \in keys }

RECURSIVE SortById(_)
\* $sort: { _id: 1 }
SortById(docs) ==
  IF docs = {} THEN << >>
  ELSE LET m == CHOOSE d \in docs : \A o \in docs : ~LexLess(o._id, d._id)
       IN  <<m>> \o SortById(docs \ {m})

\* The series pipeline (seriesPipeline, and cancelledPipeline up to the
\* names of the two result fields) run against the collection os.
SeriesPipeline(os, q, statuses) ==
  SortById(GroupByPeriod(os,
             Unwind(os, Match(os, FromDate(q.from), ToDate(q.to), statuses)),
             q.groupBy))

\* cancelledPipeline: the same stages over status = cancelled, with the
\* result fields named totalCancelledOrders and lostRevenue.
CancelledPipeline(os, q) ==
  LET s == SeriesPipeline(os, q, CANCELLED_STATUSES)
  IN  [ i \in DOMAIN s |->
          [ _id |-> s[i]._id,
            totalCancelledOrders |-> s[i].totalOrders,
            lostRevenue |-> s[i].totalRevenue ] ]

\* $group of productsPipeline: by { productId: $ifNull [productId, name], name }.
GroupByProduct(os, rows) ==
  LET item(r) == os[r[1]].items[r[2]]
      key(r) == [productId |-> IfNull(item(r).productId, item(r).name), name |-> item(r).name]
      keys == { key(r) : r \in rows }
      bucket(k) == { r \in rows : key(r) = k }
  IN  { [ _id |-> k,
          quantity |-> SumFn([r \in bucket(k) |-> item(r).quantity], bucket(k)),
          revenue |-> SumFn([r \in bucket(k) |-> ItemRevenue(item(r))], bucket(k)) ]
        : k \in keys }

\* $sort: { quantity: -1 }: every order of the documents that is descending
\* in quantity (the order of equal quantities is not specified).
SortByQuantityDesc(docs) ==
  LET n == Cardinality(docs)
  IN  { s \in [1..n -> docs] :
          /\ \A i, j \in 1..n : i # j => s[i] # s[j]
          /\ \A i, j \in 1..n : i < j => s[i].quantity >= s[j].quantity }

Min(a, b) == IF a < b THEN a ELSE b

\* $limit: top
Limit(s, top) == SubSeq(s, 1, Min(top, Len(s)))

\* The results productsPipeline can produce against the collection os.
ProductsPipeline(os, q) ==
  LET docs == GroupByProduct(os,
                Unwind(os, Match(os, FromDate(q.from), ToDate(q.to), REVENUE_STATUSES)))
  IN  { Limit(s, IfNull(q.top, DefaultTop)) : s \in SortByQuantityDesc(docs) }

\* --------------------------------------------------------- response shaper
\* Number(x.toFixed(2)): x rounded to whole cents, still counted in mills.
Round2(x) == ((x + 5) \div 10) * 10

\* A summary that leaves the last point of the series out.
calculateSummary_DropLast(s) ==
  [ totalOrders |-> SumFn([i \in 1..(Len(s) - 1) |-> s[i].totalOrders], 1..(Len(s) - 1)),
    totalRevenue |-> SumFn([i \in 1..(Len(s) - 1) |-> s[i].totalRevenue], 1..(Len(s) - 1)) ]

RECURSIVE calculateSummary(_)
calculateSummary(s) ==
  IF s = << >> THEN [totalOrders |-> 0, totalRevenue |-> 0]
  ELSE LET acc == calculateSummary(SubSeq(s, 1, Len(s) - 1))
           last == s[Len(s)]
       IN  [ totalOrders |-> acc.totalOrders + last.totalOrders,
             totalRevenue |-> acc.totalRevenue + last.totalRevenue ]

RECURSIVE calculateCancelledSummary(_)
calculateCancelledSummary(c) ==
  IF c = << >> THEN [totalCancelled |-> 0, lostRevenue |-> 0]
  ELSE LET acc == calculateCancelledSummary(SubSeq(c, 1, Len(c) - 1))
           last == c[Len(c)]
       IN  [ totalCancelled |-> acc.totalCancelled + last.totalCancelledOrders,
             lostRevenue |-> acc.lostRevenue + last.lostRevenue ]

mapProducts(products) ==
  [ i \in DOMAIN products |->
      [ productId |-> products[i]._id.productId,
        name |-> products[i]._id.name,
        quantity |-> products[i].quantity,
        revenue |-> Round2(products[i].revenue) ] ]

mapToDTO(s, p, c, q) ==
  LET summary == calculateSummary(s)
      cancelledSummary == calculateCancelledSummary(c)
  IN  [ range |-> [from |-> q.from, to |-> q.to, groupBy |-> q.groupBy],
        summary |-> [ totalOrders |-> summary.totalOrders,
                      totalRevenue |-> Round2(summary.totalRevenue),
                      avgPrepTime |-> Absent,
                      totalCancelled |-> cancelledSummary.totalCancelled,
                      lostRevenue |-> Round2(cancelledSummary.lostRevenue) ],
        series |-> [ i \in DOMAIN s |->
                       [ period |-> s[i]._id,
                         totalOrders |-> s[i].totalOrders,
                         totalRevenue |-> Round2(s[i].totalRevenue),
                         avgPrepTime |-> Absent ] ],
        cancelledSeries |-> [ i \in DOMAIN c |->
                       [ period |-> c[i]._id,
                         totalCancelled |-> c[i].totalCancelledOrders,
                         lostRevenue |-> Round2(c[i].lostRevenue) ] ],
        productsSold |-> mapProducts(p),
        topNProducts |-> mapProducts(p),
        message |-> Absent ]

\* ------------------------------------------------------------ order service
\* OrderService.createOrder: a pending order stamped with the current time,
\* its total computed from price (not unitPrice).  The event it publishes
\* goes to the message broker, which keeps no state the analytics read.
\* Between two steps of a running request at most MaxInterleaved operations
\* of the order service (or clock ticks) are interleaved.
Idle == pc = "idle" /\ auditPc = "idle"
MayInterleave == Idle \/ interleaved < MaxInterleaved
Interleave == interleaved' = IF Idle THEN 0 ELSE interleaved + 1

createOrder(items) ==
  /\ MayInterleave /\ Interleave
  /\ Len(orders) < MaxOrders
  /\ orders' = Append(orders, [ status |-> "pending",
                                createdAt |-> now,
                                items |-> items,
                                total |-> OrderTotal(items) ])
  /\ UNCHANGED << now, callVars, auditVars >>

\* OrderService.updateOrderStatus: the status is overwritten with the
\* requested one, whatever the current one is.
updateOrderStatus(orderId, status) ==
  /\ MayInterleave /\ Interleave
  /\ orderId \in DOMAIN orders
  /\ orders' = [orders EXCEPT ![orderId].status = status]
  /\ UNCHANGED << now, callVars, auditVars >>

\* Time passes: the clock moves StepDays on, alternately to the first and
\* to the last millisecond of the day.
Tick ==
  /\ MayInterleave /\ Interleave
  /\ now.day + StepDays <= LastDay
  /\ now' = [ day |-> now.day + StepDays,
              ms |-> IF now.ms = 0 THEN MsPerDay - 1 ELSE 0 ]
  /\ UNCHANGED << orders, callVars, auditVars >>

\* ----------------------------------------------------------- getAnalytics
MaxRangeDays == MaxRangeMonths * DaysPerMonth

\* A range check that compares whole days only.
RangeExceeded_WholeDays(fromDate, toDate) == toDate.day - fromDate.day > MaxRangeDays

\* monthsDiff > 120, with monthsDiff = (toDate - fromDate) / (30 days in ms):
\* the difference is d days and m ms with |m| < MsPerDay.
RangeExceeded(fromDate, toDate) ==
  LET d == toDate.day - fromDate.day
      m == toDate.ms - fromDate.ms
  IN  d > MaxRangeDays \/ (d = MaxRangeDays /\ m > 0)

\* The synchronous head of getAnalytics: the dates are built and the range
\* is validated before the first await.
CallGetAnalytics(q) ==
  /\ pc = "idle"
  /\ query' = q
  /\ aggregateCalls' = 0
  /\ IF RangeExceeded(FromDate(q.from), ToDate(q.to))
       THEN pc' = "threw" /\ errorCode' = "RANGE_EXCEEDED"
       ELSE pc' = "series" /\ errorCode' = ""
  /\ UNCHANGED << series, cancelledSeries, productsSold, analytics >>

\* await this.orderModel.aggregate(seriesPipeline).exec()
SeriesAggregate ==
  /\ pc = "series"
  /\ series' = SeriesPipeline(orders, query, REVENUE_STATUSES)
  /\ aggregateCalls' = aggregateCalls + 1
  /\ pc' = "cancelled"
  /\ UNCHANGED << query, cancelledSeries, productsSold, analytics, errorCode >>
  /\ UNCHANGED << storeVars, auditVars >>

\* A no-data test that looks at the revenue series only.
NoData_SeriesOnly(s, c) == Len(s) = 0

\* (!series || series.length === 0) && (!cancelledSeries || cancelledSeries.length === 0)
NoData(s, c) == Len(s) = 0 /\ Len(c) = 0

\* await this.orderModel.aggregate(cancelledPipeline).exec(), then the
\* no-data test.
CancelledAggregate ==
  /\ pc = "cancelled"
  /\ cancelledSeries' = CancelledPipeline(orders, query)
  /\ aggregateCalls' = aggregateCalls + 1
  /\ IF NoData(series, cancelledSeries')
       THEN pc' = "returned" /\ analytics' = Absent
       ELSE pc' = "products" /\ UNCHANGED analytics
  /\ UNCHANGED << query, series, productsSold, errorCode >>
  /\ UNCHANGED << storeVars, auditVars >>

\* await this.orderModel.aggregate(productsPipeline).exec(), then mapToDTO.
ProductsAggregate ==
  /\ pc = "products"
  /\ \E p \in ProductsPipeline(orders, query) :
       /\ productsSold' = p
       /\ analytics' = << mapToDTO(series, p, cancelledSeries, query) >>
  /\ aggregateCalls' = aggregateCalls + 1
  /\ pc' = "returned"
  /\ UNCHANGED << query, series, cancelledSeries, errorCode >>
  /\ UNCHANGED << storeVars, auditVars >>

ResetCall ==
  /\ pc' = "idle"
  /\ query' = NoQuery
  /\ series' = << >>
  /\ cancelledSeries' = << >>
  /\ productsSold' = << >>
  /\ analytics' = Absent
  /\ errorCode' = ""
  /\ aggregateCalls' = 0

\* ------------------------------------------------ analyticsController
\* The same day of the month n years before.
YearsBefore(day, n) ==
  LET c == CivilFromDays(day) IN DaysFromCivil(c.y - n, c.m, c.d)

\* The first days asked for: a window to BaseDay of 3601 days, of 3600 days,
\* of ten calendar years, of one day, and a first day after BaseDay.
FromDays ==
  { BaseDay - MaxRangeDays, BaseDay - MaxRangeDays + 1,
    YearsBefore(BaseDay, MaxRangeYears) + 1, BaseDay, BaseDay + StepDays }
ToDays == { BaseDay, BaseDay + StepDays }
\* Every granularity with the default top, and top = 1 by day.
Queries ==
  { [from |-> f, to |-> t, groupBy |-> g, top |-> Absent] :
      f \in FromDays, t \in ToDays, g \in GroupBys }
  \cup
  { [from |-> f, to |-> t, groupBy |-> "day", top |-> <<1>>] :
      f \in FromDays, t \in ToDays }

\* getInternalAnalytics, up to the call of service.getAnalytics.
getInternalAnalytics(q) ==
  /\ auditPc = "idle"
  /\ CallGetAnalytics(q)
  /\ UNCHANGED << storeVars, auditVars >>

\* getInternalAnalytics, from the return of service.getAnalytics on: the
\* response is sent (200, 204 or 400) and the request is over.
Respond ==
  /\ auditPc = "idle"
  /\ pc \in {"returned", "threw"}
  /\ ResetCall
  /\ interleaved' = 0
  /\ UNCHANGED << now, orders, auditVars >>

\* ------------------------------------------- AnalyticsValidationService
Abs(x) == IF x < 0 THEN 0 - x ELSE x

\* Number(percentage.toFixed(2)) in hundredths of a percent, where
\* percentage = diff / actualValue * 100 (actualValue > 0).
RoundedPercentage(diff, actualValue) ==
  LET n == 10000 * diff
      q == n \div actualValue
      r == n % actualValue
  IN  q + (IF 2 * r >= actualValue THEN 1 ELSE 0)

\* A calculateDiscrepancy whose thresholds are reached by equality.
calculateDiscrepancy_NonStrict(metric, reportedValue, actualValue) ==
  LET diff == Abs(reportedValue - actualValue)
      num == IF actualValue > 0 THEN 100 * diff ELSE 0
      den == IF actualValue > 0 THEN actualValue ELSE 1
      severity ==
        IF num >= CRITICAL_THRESHOLD * den THEN "CRITICAL"
        ELSE IF num >= TOLERANCE_PERCENTAGE * den THEN "HIGH"
        ELSE IF 2 * num >= den THEN "MEDIUM"
        ELSE "LOW"
  IN  [ metric |-> metric,
        reportedValue |-> reportedValue,
        actualValue |-> actualValue,
        discrepancyPercentage |->
          IF actualValue > 0 THEN RoundedPercentage(diff, actualValue) ELSE 0,
        severity |-> severity ]

\* calculateDiscrepancy.  The unrounded percentage is the rational
\* 100 * diff / actualValue; discrepancyPercentage is kept in hundredths
\* of a percent.
calculateDiscrepancy(metric, reportedValue, actualValue) ==
  LET diff == Abs(reportedValue - actualValue)
      num == IF actualValue > 0 THEN 100 * diff ELSE 0
      den == IF actualValue > 0 THEN actualValue ELSE 1
      severity ==
        IF num > CRITICAL_THRESHOLD * den THEN "CRITICAL"
        ELSE IF num > TOLERANCE_PERCENTAGE * den THEN "HIGH"
        ELSE IF 2 * num > den THEN "MEDIUM"
        ELSE "LOW"
  IN  [ metric |-> metric,
        reportedValue |-> reportedValue,
        actualValue |-> actualValue,
        discrepancyPercentage |->
          IF actualValue > 0 THEN RoundedPercentage(diff, actualValue) ELSE 0,
        severity |-> severity ]

\* The audited queries: by day (as runScheduledValidation asks), default top.
AuditQueries ==
  { q \in Queries : q.groupBy = "day" /\ q.top = Absent
                    /\ q.from \in {BaseDay - MaxRangeDays, BaseDay} }

\* validateAnalyticsConsistency, up to the call of repository.getAnalytics.
validateAnalyticsConsistency(q) ==
  /\ auditPc = "idle"
  /\ CallGetAnalytics(q)
  /\ auditPc' = "report"
  /\ discrepancies' = << >>
  /\ UNCHANGED << storeVars, validationResult, alerts >>

\* The report arrives: an error of getAnalytics is rethrown, a null report
\* is valid with no discrepancies, any other report is validated.
ReceiveReport ==
  /\ auditPc = "report"
  /\ pc \in {"returned", "threw"}
  /\ pc' = "idle"
  /\ IF pc = "threw"
       THEN auditPc' = "threw" /\ UNCHANGED validationResult
       ELSE IF analytics = Absent
         THEN /\ auditPc' = "returned"
              /\ validationResult' = << [isValid |-> TRUE, discrepancies |-> << >>] >>
         ELSE auditPc' = "completedCount" /\ UNCHANGED validationResult
  /\ UNCHANGED << query, series, cancelledSeries, productsSold, analytics,
                  errorCode, aggregateCalls >>
  /\ UNCHANGED << storeVars, discrepancies, alerts >>

InRange(statuses) == Match(orders, FromDate(query.from), ToDate(query.to), statuses)

\* A count metric: any difference is pushed.
PushIfDifferent(metric, reportedCount, actualCount) ==
  discrepancies' =
    IF actualCount # reportedCount
      THEN Append(discrepancies, calculateDiscrepancy(metric, reportedCount, actualCount))
      ELSE discrepancies

\* A monetary check without the tolerance gate: any difference is pushed.
AfterTolerance_AnyDifference(ds, metric, reported, actual) ==
  IF actual # reported
    THEN Append(ds, calculateDiscrepancy(metric, reported, actual))
    ELSE ds

\* A monetary metric: pushed when diff > actual * (TOLERANCE_PERCENTAGE / 100).
AfterTolerance(ds, metric, reported, actual) ==
  IF 100 * Abs(actual - reported) > actual * TOLERANCE_PERCENTAGE
    THEN Append(ds, calculateDiscrepancy(metric, reported, actual))
    ELSE ds

validateCompletedOrdersCount ==
  /\ auditPc = "completedCount"
  /\ PushIfDifferent("Total Ordenes Completadas",
                     analytics[1].summary.totalOrders,
                     Cardinality(InRange(REVENUE_STATUSES)))
  /\ auditPc' = "cancelledCount"
  /\ UNCHANGED << storeVars, callVars, validationResult, alerts >>

validateCancelledOrdersCount ==
  /\ auditPc = "cancelledCount"
  /\ PushIfDifferent("Total Ordenes Canceladas",
                     analytics[1].summary.totalCancelled,
                     Cardinality(InRange(CANCELLED_STATUSES)))
  /\ auditPc' = "totalRevenue"
  /\ UNCHANGED << storeVars, callVars, validationResult, alerts >>

\* orders.reduce((sum, order) => sum + order.total, 0) over the found orders
ActualTotal(statuses) ==
  SumFn([i \in InRange(statuses) |-> orders[i].total], InRange(statuses))

validateTotalRevenue ==
  /\ auditPc = "totalRevenue"
  /\ discrepancies' = AfterTolerance(discrepancies, "Ingresos Totales",
                                     analytics[1].summary.totalRevenue,
                                     ActualTotal(REVENUE_STATUSES))
  /\ auditPc' = "lostRevenue"
  /\ UNCHANGED << storeVars, callVars, validationResult, alerts >>

\* sendCriticalAlert: the message written to the error log.
alertMessage(result, q) ==
  [ type |-> "ANALYTICS_VALIDATION_FAILURE",
    dateRange |-> [from |-> q.from, to |-> q.to],
    criticalDiscrepancies |->
      SelectSeq(result.discrepancies, LAMBDA d : d.severity = "CRITICAL"),
    totalDiscrepancies |-> Len(result.discrepancies),
    message |-> "ALERTA CRITICA: Se detectaron inconsistencias significativas en reportes de analytics",
    actionRequired |-> "Revisar queries de analytics y verificar integridad de datos en BD" ]

\* isValid: no discrepancy whose (rounded) percentage exceeds the tolerance.
ResultOf(ds) ==
  [ isValid |-> ~ \E i \in DOMAIN ds :
                     ds[i].discrepancyPercentage > 100 * TOLERANCE_PERCENTAGE,
    discrepancies |-> ds ]

\* An alert trigger that fires on everything above the tolerance.
HasCritical_AboveTolerance(ds) ==
  \E i \in DOMAIN ds : ds[i].severity \in {"HIGH", "CRITICAL"}

\* discrepancies.some(d => d.severity === 'CRITICAL')
HasCritical(ds) == \E i \in DOMAIN ds : ds[i].severity = "CRITICAL"

\* validateLostRevenue, then the rest of validateAnalyticsConsistency, which
\* runs without another await: the result and the critical alert.
validateLostRevenue ==
  /\ auditPc = "lostRevenue"
  /\ LET ds == AfterTolerance(discrepancies, "Ingresos Perdidos",
                              analytics[1].summary.lostRevenue,
                              ActualTotal(CANCELLED_STATUSES))
         result == ResultOf(ds)
     IN  /\ discrepancies' = ds
         /\ validationResult' = << result >>
         /\ alerts' = IF HasCritical(ds)
                        THEN Append(alerts, alertMessage(result, query))
                        ELSE alerts
  /\ auditPc' = "returned"
  /\ UNCHANGED << storeVars, callVars >>

\* postInternalAnalyticsValidate answers (200 or 500) and the request is over.
RespondValidate ==
  /\ auditPc \in {"returned", "threw"}
  /\ auditPc' = "idle"
  /\ discrepancies' = << >>
  /\ validationResult' = Absent
  /\ alerts' = << >>
  /\ ResetCall
  /\ interleaved' = 0
  /\ UNCHANGED << now, orders >>

\* ------------------------------------------------- formatPeriod, as called
\* The dates formatPeriod is called with: the days from 2024-12-23 (a
\* Monday) on, at midnight, noon and the last millisecond (UTC).
FormatDays == 14
FormatDates ==
  { [day |-> DaysFromCivil(2024, 12, 23) + k, ms |-> m] :
      k \in 0..(FormatDays - 1), m \in {0, MsPerDay \div 2, MsPerDay - 1} }

\* The time zone of the process, in minutes east of UTC: Bogota, UTC, Madrid.
TimeZones == {0 - 300, 0, 60}

\* A caller holds a Date and a strategy.
FormatCalls ==
  { [date |-> t, tz |-> z, groupBy |-> g] :
      t \in FormatDates, z \in TimeZones, g \in GroupBys }

\* strategy.formatPeriod(date)
CallFormatPeriod ==
  /\ formatInput # << >>
  /\ formatOutput = << >>
  /\ formatOutput' =
       << formatPeriod(formatInput[1].groupBy, formatInput[1].date, formatInput[1].tz) >>
  /\ UNCHANGED << formatInput, storeVars, callVars, auditVars, csvVars, severityVars, cancelVars, reviewVars >>

\* ------------------------------------------------------------ CSVExporter
\* The text pushed to a Readable is a sequence of chunks; a chunk is a
\* record [bom, lines]: whether it starts with U+FEFF, and its lines, each a
\* sequence of cells [quoted, value].
DefaultColumns ==
  << "period", "totalOrders", "totalRevenue", "productId", "productName",
     "quantity", "avgPrepTime" >>

\* A column definition of the request body: a string, or anything else.
Col(key) == [isString |-> TRUE, key |-> key]
NotAColumn == [isString |-> FALSE, key |-> ""]

\* query.columns?.length ? query.columns : [the seven columns]
resolveColumns(columns) ==
  IF Len(columns) > 0 THEN columns
  ELSE [ i \in DOMAIN DefaultColumns |-> Col(DefaultColumns[i]) ]

\* " to ", in character codes.
ToWord == << 32, 116, 111, 32 >>

\* The record pushed when analytics (or its series, or its productsSold) is
\* missing: period is `${query.from} to ${query.to}`.
placeholderRecord(q) ==
  [ period |-> DayPeriodExpression(FromDate(q.from)) \o ToWord
                 \o DayPeriodExpression(FromDate(q.to)),
    totalOrders |-> 0,
    totalRevenue |-> 0,
    productId |-> "",
    productName |-> "No data available",
    quantity |-> 0,
    avgPrepTime |-> "" ]

\* The record of one series item and one product.
dataRecord(seriesItem, product) ==
  [ period |-> seriesItem.period,
    totalOrders |-> seriesItem.totalOrders,
    totalRevenue |-> seriesItem.totalRevenue,
    productId |-> product.productId,
    productName |-> product.name,
    quantity |-> product.quantity,
    avgPrepTime |-> IfNull(seriesItem.avgPrepTime, "") ]

\* Records with one row for each series item, carrying its first product.
exportRecords_PerSeries(a, q) ==
  IF a = Absent THEN << placeholderRecord(q) >>
  ELSE IF Len(a[1].productsSold) = 0 THEN << >>
  ELSE [ i \in DOMAIN a[1].series |-> dataRecord(a[1].series[i], a[1].productsSold[1]) ]

\* Records that leave the placeholder out.
exportRecords_NoPlaceholder(a, q) ==
  IF a = Absent THEN << >>
  ELSE LET n == Len(a[1].series)
           m == Len(a[1].productsSold)
       IN  [ k \in 1..(n * m) |->
               dataRecord(a[1].series[((k - 1) \div m) + 1],
                          a[1].productsSold[((k - 1) % m) + 1]) ]

\* The records array: the placeholder, or series.forEach(productsSold.forEach)
\* (the mapper always sets series and productsSold of a response).
exportRecords(a, q) ==
  IF a = Absent THEN << placeholderRecord(q) >>
  ELSE LET n == Len(a[1].series)
           m == Len(a[1].productsSold)
       IN  [ k \in 1..(n * m) |->
               dataRecord(a[1].series[((k - 1) \div m) + 1],
                          a[1].productsSold[((k - 1) % m) + 1]) ]

\* The value of a record under a column key; a key the record does not have
\* gives the empty field.
Field(record, key) ==
  CASE key = "period" -> record.period
    [] key = "totalOrders" -> record.totalOrders
    [] key = "totalRevenue" -> record.totalRevenue
    [] key = "productId" -> record.productId
    [] key = "productName" -> record.productName
    [] key = "quantity" -> record.quantity
    [] key = "avgPrepTime" -> record.avgPrepTime
    [] OTHER -> ""

Quoted(v) == [quoted |-> TRUE, value |-> v]
Plain(v) == [quoted |-> FALSE, value |-> v]

\* stringify rejects a columns option with an entry that is neither a
\* string nor an object with a key.
stringifyThrows(columns) == \E i \in DOMAIN columns : ~columns[i].isString

\* stringify(records, {header: true, columns, delimiter: ';', quoted: true,
\* quoted_empty: true}): the header line, then one line for each record.
stringify(records, columns) ==
  << [ c \in DOMAIN columns |-> Quoted(columns[c].key) ] >>
  \o [ r \in DOMAIN records |->
         [ c \in DOMAIN columns |-> Quoted(Field(records[r], columns[c].key)) ] ]

\* The chunks CSVExporter.export pushes before it ends its stream.
export(a, q, columns) ==
  LET cols == resolveColumns(columns)
      records == exportRecords(a, q)
  IN  IF stringifyThrows(cols)
        THEN << [ bom |-> FALSE,
                  lines |-> << << Plain("Error generating CSV report") >> >> ] >>
        ELSE << [ bom |-> TRUE, lines |-> stringify(records, cols) ] >>

\* The two chunks the catch of streamCsv pushes.
fallbackChunks ==
  << [ bom |-> FALSE,
       lines |-> << [ i \in DOMAIN DefaultColumns |-> Plain(DefaultColumns[i]) ] >> ],
     [ bom |-> FALSE,
       lines |-> << << Plain("Error"), Plain(0), Plain(0), Plain(""),
                       Plain("Error al generar reporte"), Plain(0), Plain("") >> >> ] >>

\* The windows exported: one day, a few days, and 3601 days (over the range).
CsvQueries ==
  { [from |-> f, to |-> t, groupBy |-> g, top |-> Absent] :
      f \in { BaseDay - MaxRangeDays, BaseDay },
      t \in { BaseDay, BaseDay + StepDays },
      g \in { "day", "month" } }

\* The columns of the request bodies: none, three of the seven, one the
\* records do not have, and a body whose columns hold a non-string.
ColumnChoices ==
  { << >>,
    << Col("period"), Col("productName"), Col("quantity") >>,
    << Col("period"), Col("margin") >>,
    << Col("period"), NotAColumn >> }

\* postInternalAnalyticsExport, through service.streamCsv, up to the call of
\* getAnalytics: the Readable is returned and piped to the response.
postInternalAnalyticsExport(q, columns) ==
  /\ auditPc = "idle"
  /\ csvPc = "idle"
  /\ CallGetAnalytics(q)
  /\ csvPc' = "open"
  /\ csvColumns' = columns
  /\ csvStream' = << >>
  /\ UNCHANGED << storeVars, auditVars, formatVars, severityVars, cancelVars, reviewVars >>

\* .then(analytics => ...): the chunks of the exporter's stream are pushed
\* to the Readable, and its end ends the Readable.
streamCsvThen ==
  /\ csvPc = "open"
  /\ pc = "returned"
  /\ csvStream' = csvStream \o export(analytics, query, csvColumns)
  /\ csvPc' = "ended"
  /\ UNCHANGED << csvColumns, storeVars, callVars, auditVars, formatVars, severityVars, cancelVars, reviewVars >>

\* A catch that destroys the Readable with the error instead.
streamCsvCatch_Destroy ==
  /\ csvPc = "open"
  /\ pc = "threw"
  /\ csvPc' = "errored"
  /\ UNCHANGED << csvStream, csvColumns, storeVars, callVars, auditVars, formatVars, severityVars, cancelVars, reviewVars >>

\* .catch(err => ...): two lines are pushed and the Readable is ended.
streamCsvCatch ==
  /\ csvPc = "open"
  /\ pc = "threw"
  /\ csvStream' = csvStream \o fallbackChunks
  /\ csvPc' = "ended"
  /\ UNCHANGED << csvColumns, storeVars, callVars, auditVars, formatVars, severityVars, cancelVars, reviewVars >>

\* The response has been sent whole: the request is over.
CsvRespond ==
  /\ csvPc = "ended"
  /\ ResetCall
  /\ csvPc' = "idle"
  /\ csvColumns' = << >>
  /\ csvStream' = << >>
  /\ interleaved' = 0
  /\ UNCHANGED << now, orders, auditVars, formatVars, severityVars, cancelVars, reviewVars >>

\* ------------------------------------------- calculateDiscrepancy, as called
\* The recomputed values and the differences calculateDiscrepancy is called
\* with: around 0.5 %, 1 % and 5 % of 200 and of 1000, a zero recomputed
\* value, and 5.004 % of 100000 (which toFixed(2) records as 5.00).
MaxDiff == 60
SeverityActuals == { 0, 200, 1000, 100000 }
SeverityDiffs == (0..MaxDiff) \cup { 5004 }
SeverityReported(a) ==
  { a + d : d \in SeverityDiffs } \cup { a - d : d \in { e \in SeverityDiffs : e <= a } }
SeverityCalls ==
  UNION { { [metric |-> "totalRevenue", reportedValue |-> r, actualValue |-> a] :
              r \in SeverityReported(a) } : a \in SeverityActuals }

CallCalculateDiscrepancy ==
  /\ severityInput # << >>
  /\ severityOutput = << >>
  /\ severityOutput' =
       << calculateDiscrepancy(severityInput[1].metric, severityInput[1].reportedValue,
                               severityInput[1].actualValue) >>
  /\ UNCHANGED << severityInput, storeVars, callVars, auditVars, formatVars, csvVars,
                  cancelVars, reviewVars >>

NoSeverityCall == severityInput = << >> /\ severityOutput = << >>

\* ------------------------------------------------- OrderService.cancelOrder
MaxCalls == 2
MaxUpdatedOrders == 1
MaxCancellations == 2

ALL_ORDER_STATES ==
  {"pending", "received", "preparing", "ready", "completed", "cancelled", "delivered"}
CUSTOMER_CANCELLABLE_STATES == {"pending", "received"}
ADMIN_CANCELLABLE_STATES == {"pending", "received", "preparing", "ready"}
FINAL_STATES == {"completed", "delivered", "cancelled"}

Callers == {"customer", "admin"}
Calls == 1..MaxCalls

\* A cancelOrder call: where it stands, its arguments, the status of the
\* order document it read, and the message of the error it threw.
NoCall == [pc |-> "idle", orderId |-> 0, cancelledBy |-> "", status |-> "", error |-> ""]

\* cancelledBy === 'customer' ? CUSTOMER_CANCELLABLE_STATES : ADMIN_CANCELLABLE_STATES
allowedStates(cancelledBy) ==
  IF cancelledBy = "customer" THEN CUSTOMER_CANCELLABLE_STATES
  ELSE ADMIN_CANCELLABLE_STATES

\* The call: cancelOrder(orderId, reason, cancelledBy), up to the await of
\* getOrderById.  Calls are not started once MaxCancellations records exist.
cancelOrder(c, orderId, cancelledBy) ==
  /\ cancelCalls[c].pc = "idle"
  /\ Len(cancellations) < MaxCancellations
  /\ cancelCalls' = [cancelCalls EXCEPT ![c] =
       [NoCall EXCEPT !.pc = "find", !.orderId = orderId, !.cancelledBy = cancelledBy]]
  /\ UNCHANGED << orders, cancellations, events, cancelSaves >>

\* getOrderById answered: not found, already cancelled (returned as it is),
\* not cancellable by this caller, or: the cancellation record is built and
\* its save is under way.
findOrder(c) ==
  LET call == cancelCalls[c] IN
  /\ call.pc = "find"
  /\ cancelCalls' = [cancelCalls EXCEPT ![c] =
       IF call.orderId \notin DOMAIN orders
         THEN [call EXCEPT !.pc = "threw", !.error = "no encontrado"]
       ELSE IF orders[call.orderId].status = "cancelled"
         THEN [call EXCEPT !.pc = "returned", !.status = "cancelled"]
       ELSE IF orders[call.orderId].status \notin allowedStates(call.cancelledBy)
         THEN [call EXCEPT !.pc = "threw", !.status = orders[call.orderId].status,
                           !.error = "no cancelable"]
       ELSE [call EXCEPT !.pc = "cancellation", !.status = orders[call.orderId].status]]
  /\ UNCHANGED << orders, cancellations, events, cancelSaves >>

\* await cancellation.save()
saveCancellation(c) ==
  LET call == cancelCalls[c] IN
  /\ call.pc = "cancellation"
  /\ cancellations' = Append(cancellations,
       [orderId |-> call.orderId, previousStatus |-> call.status,
        cancelledBy |-> call.cancelledBy])
  /\ cancelCalls' = [cancelCalls EXCEPT ![c].pc = "order"]
  /\ UNCHANGED << orders, events, cancelSaves >>

\* order.status = CANCELLED; await order.save(), resolved: the schema sets
\* no optimisticConcurrency, so the update is { _id } -> $set status and the
\* stored status is overwritten, whatever it has become.
saveOrder(c) ==
  LET call == cancelCalls[c] IN
  /\ call.pc = "order"
  /\ orders' = [orders EXCEPT ![call.orderId].status = "cancelled"]
  /\ cancelSaves' = cancelSaves \cup {call.orderId}
  /\ cancelCalls' = [cancelCalls EXCEPT ![c].pc = "publish"]
  /\ UNCHANGED << cancellations, events >>

\* The errors order.save() is rejected with.
SaveErrors == {"VersionError", "MongoNetworkError"}

\* await order.save(), rejected: a VersionError (or a message holding
\* 'version') is rethrown as the conflict error, any other error as it is.
saveOrderRejected(c, saveError) ==
  LET call == cancelCalls[c] IN
  /\ call.pc = "order"
  /\ cancelCalls' = [cancelCalls EXCEPT
       ![c].pc = "threw",
       ![c].error = IF saveError = "VersionError" THEN "Conflicto detectado" ELSE saveError]
  /\ UNCHANGED << orders, cancellations, events, cancelSaves >>

\* await this.eventPublisher.publishEvent(order.cancelled, eventData), resolved.
publishCancelled(c) ==
  LET call == cancelCalls[c] IN
  /\ call.pc = "publish"
  /\ events' = Append(events,
       [orderId |-> call.orderId, previousStatus |-> call.status,
        cancelledBy |-> call.cancelledBy])
  /\ cancelCalls' = [cancelCalls EXCEPT ![c].pc = "returned"]
  /\ UNCHANGED << orders, cancellations, cancelSaves >>

\* publishEvent rejected: cancelOrder rethrows.
publishRejected(c) ==
  LET call == cancelCalls[c] IN
  /\ call.pc = "publish"
  /\ cancelCalls' = [cancelCalls EXCEPT ![c].pc = "threw",
                                        ![c].error = "RabbitMQ connection lost"]
  /\ UNCHANGED << orders, cancellations, events, cancelSaves >>

\* The caller has the order or the error: the call is over.
cancelOrderDone(c) ==
  /\ cancelCalls[c].pc \in {"returned", "threw"}
  /\ cancelCalls' = [cancelCalls EXCEPT ![c] = NoCall]
  /\ UNCHANGED << orders, cancellations, events, cancelSaves >>

NoCancellation ==
  /\ cancellations = << >>
  /\ events = << >>
  /\ cancelCalls = [c \in Calls |-> NoCall]
  /\ cancelSaves = {}

\* The item list of the orders cancelled.
CancelItemLists == { << Pasta(1, 2990, <<3020>>) >> }

\* The ids cancelOrder is called with: the orders, and one that is not there.
OrderIds == 1..(MaxOrders + 1)

\* What is left alone by the order service's steps.
analyticsVars == << callVars, auditVars, formatVars, csvVars, severityVars, reviewVars >>

\* The steps of the running cancelOrder calls.
CancelSteps ==
  \E c \in Calls :
    \/ findOrder(c)
    \/ saveCancellation(c)
    \/ saveOrder(c)
    \/ \E saveError \in SaveErrors : saveOrderRejected(c, saveError)
    \/ publishCancelled(c)
    \/ publishRejected(c)
    \/ cancelOrderDone(c)

\* --------------------------------------------------------- ReviewService
MaxReviews == 2
ReviewStatuses == {"pending", "approved", "hidden"}

\* What changeReviewStatus is asked for: the three statuses, and one that
\* is none of them.
RequestedStatuses == ReviewStatuses \cup {"deleted"}

\* The moderation transitions the service documents.
ValidReviewTransitions ==
  { <<"pending", "approved">>, <<"approved", "hidden">>, <<"pending", "hidden">> }

NoReviewCall == [pc |-> "idle", id |-> 0, status |-> "", error |-> ""]

\* ReviewService.createReview: a review is stored as pending.
createReview ==
  /\ Len(reviews) < MaxReviews
  /\ reviews' = Append(reviews, "pending")
  /\ UNCHANGED reviewCall

\* changeReviewStatus(id, status), up to the await of findById: a status
\* that is none of the three is refused at once.
changeReviewStatus(id, status) ==
  /\ reviewCall.pc = "idle"
  /\ reviewCall' =
       IF status \notin ReviewStatuses
         THEN [NoReviewCall EXCEPT !.pc = "threw", !.id = id, !.status = status,
                                   !.error = "Invalid status"]
         ELSE [NoReviewCall EXCEPT !.pc = "find", !.id = id, !.status = status]
  /\ UNCHANGED reviews

\* findById answered: the review is missing, or updateStatus is called.
findReview ==
  /\ reviewCall.pc = "find"
  /\ reviewCall' =
       IF reviewCall.id \notin DOMAIN reviews
         THEN [reviewCall EXCEPT !.pc = "threw", !.error = "Review not found"]
         ELSE [reviewCall EXCEPT !.pc = "update"]
  /\ UNCHANGED reviews

\* ReviewRepository.updateStatus: Review.findByIdAndUpdate(id, { status }).
updateStatus ==
  /\ reviewCall.pc = "update"
  /\ reviews' = [reviews EXCEPT ![reviewCall.id] = reviewCall.status]
  /\ reviewCall' = [reviewCall EXCEPT !.pc = "returned"]

\* The caller has the review or the error.
changeReviewStatusDone ==
  /\ reviewCall.pc \in {"returned", "threw"}
  /\ reviewCall' = NoReviewCall
  /\ UNCHANGED reviews

NoReview == reviews = << >> /\ reviewCall = NoReviewCall

\* ------------------------------------------------------------ specification
Init ==
  /\ now = [day |-> BaseDay, ms |-> 0]
  /\ orders = << >>
  /\ pc = "idle"
  /\ query = NoQuery
  /\ series = << >>
  /\ cancelledSeries = << >>
  /\ productsSold = << >>
  /\ analytics = Absent
  /\ errorCode = ""
  /\ aggregateCalls = 0
  /\ auditPc = "idle"
  /\ discrepancies = << >>
  /\ validationResult = Absent
  /\ alerts = << >>
  /\ interleaved = 0
  /\ formatInput = << >>
  /\ formatOutput = << >>
  /\ csvPc = "idle"
  /\ csvColumns = << >>
  /\ csvStream = << >>
  /\ NoSeverityCall
  /\ NoCancellation
  /\ NoReview

StoreNext ==
  \/ \E items \in ItemLists : createOrder(items)
  \/ \E i \in 1..MaxOrders, st \in OrderStatus : updateOrderStatus(i, st)
  \/ Tick

Next ==
  \/ StoreNext /\ UNCHANGED << formatVars, csvVars, severityVars, cancelVars, reviewVars >>
  \/ (\E q \in Queries : getInternalAnalytics(q)) /\ UNCHANGED << formatVars, csvVars, severityVars, cancelVars, reviewVars >>
  \/ SeriesAggregate /\ UNCHANGED << formatVars, csvVars, severityVars, cancelVars, reviewVars >>
  \/ CancelledAggregate /\ UNCHANGED << formatVars, csvVars, severityVars, cancelVars, reviewVars >>
  \/ ProductsAggregate /\ UNCHANGED << formatVars, csvVars, severityVars, cancelVars, reviewVars >>
  \/ Respond /\ UNCHANGED << formatVars, csvVars, severityVars, cancelVars, reviewVars >>

Spec == Init /\ [][Next]_vars

AuditNext ==
  \/ StoreNext /\ UNCHANGED << formatVars, csvVars, severityVars, cancelVars, reviewVars >>
  \/ (\E q \in AuditQueries : validateAnalyticsConsistency(q))
       /\ UNCHANGED << formatVars, csvVars, severityVars, cancelVars, reviewVars >>
  \/ SeriesAggregate /\ UNCHANGED << formatVars, csvVars, severityVars, cancelVars, reviewVars >>
  \/ CancelledAggregate /\ UNCHANGED << formatVars, csvVars, severityVars, cancelVars, reviewVars >>
  \/ ProductsAggregate /\ UNCHANGED << formatVars, csvVars, severityVars, cancelVars, reviewVars >>
  \/ ReceiveReport /\ UNCHANGED << formatVars, csvVars, severityVars, cancelVars, reviewVars >>
  \/ validateCompletedOrdersCount /\ UNCHANGED << formatVars, csvVars, severityVars, cancelVars, reviewVars >>
  \/ validateCancelledOrdersCount /\ UNCHANGED << formatVars, csvVars, severityVars, cancelVars, reviewVars >>
  \/ validateTotalRevenue /\ UNCHANGED << formatVars, csvVars, severityVars, cancelVars, reviewVars >>
  \/ validateLostRevenue /\ UNCHANGED << formatVars, csvVars, severityVars, cancelVars, reviewVars >>
  \/ RespondValidate /\ UNCHANGED << formatVars, csvVars, severityVars, cancelVars, reviewVars >>

AuditSpec == Init /\ [][AuditNext]_vars

\* formatPeriod is a pure function: every behaviour is one call of it.
FormatInit ==
  /\ now = [day |-> BaseDay, ms |-> 0]
  /\ orders = << >>
  /\ pc = "idle"
  /\ query = NoQuery
  /\ series = << >>
  /\ cancelledSeries = << >>
  /\ productsSold = << >>
  /\ analytics = Absent
  /\ errorCode = ""
  /\ aggregateCalls = 0
  /\ auditPc = "idle"
  /\ discrepancies = << >>
  /\ validationResult = Absent
  /\ alerts = << >>
  /\ interleaved = 0
  /\ \E c \in FormatCalls : formatInput = << c >>
  /\ formatOutput = << >>
  /\ csvPc = "idle"
  /\ csvColumns = << >>
  /\ csvStream = << >>
  /\ NoSeverityCall
  /\ NoCancellation
  /\ NoReview

FormatNext == CallFormatPeriod

FormatSpec == FormatInit /\ [][FormatNext]_vars

CsvNext ==
  \/ StoreNext /\ UNCHANGED << formatVars, csvVars, severityVars, cancelVars, reviewVars >>
  \/ \E q \in CsvQueries, columns \in ColumnChoices : postInternalAnalyticsExport(q, columns)
  \/ SeriesAggregate /\ UNCHANGED << formatVars, csvVars, severityVars, cancelVars, reviewVars >>
  \/ CancelledAggregate /\ UNCHANGED << formatVars, csvVars, severityVars, cancelVars, reviewVars >>
  \/ ProductsAggregate /\ UNCHANGED << formatVars, csvVars, severityVars, cancelVars, reviewVars >>
  \/ streamCsvThen
  \/ streamCsvCatch
  \/ CsvRespond

CsvSpec == Init /\ [][CsvNext]_vars

\* The stores an export is followed to its end on: no order; one ready
\* order; a ready order and a cancelled one, two days apart.
StoredOrder(items, status, day) ==
  [ status |-> status,
    createdAt |-> [day |-> day, ms |-> 0],
    items |-> items,
    total |-> OrderTotal(items) ]

CsvStores ==
  { << >>,
    << StoredOrder(<< Pizza(2, 4000, Absent), Soda(1, 1004, Absent) >>, "ready", BaseDay) >>,
    << StoredOrder(<< Pasta(1, 2990, <<3020>>) >>, "ready", BaseDay),
       StoredOrder(<< Pizza(1, 0, <<2000>>) >>, "cancelled", BaseDay + StepDays) >> }

\* Exports against a store that is not written to while they run.
CsvLiveInit ==
  /\ now = [day |-> BaseDay + StepDays, ms |-> 0]
  /\ orders \in CsvStores
  /\ pc = "idle"
  /\ query = NoQuery
  /\ series = << >>
  /\ cancelledSeries = << >>
  /\ productsSold = << >>
  /\ analytics = Absent
  /\ errorCode = ""
  /\ aggregateCalls = 0
  /\ auditPc = "idle"
  /\ discrepancies = << >>
  /\ validationResult = Absent
  /\ alerts = << >>
  /\ interleaved = 0
  /\ formatInput = << >>
  /\ formatOutput = << >>
  /\ csvPc = "idle"
  /\ csvColumns = << >>
  /\ csvStream = << >>
  /\ NoSeverityCall
  /\ NoCancellation
  /\ NoReview

\* The steps of a running export that wait for nothing but the data store
\* and the event loop: the three aggregates and the two promise callbacks.
CsvProgress ==
  \/ SeriesAggregate /\ UNCHANGED << formatVars, csvVars, severityVars, cancelVars, reviewVars >>
  \/ CancelledAggregate /\ UNCHANGED << formatVars, csvVars, severityVars, cancelVars, reviewVars >>
  \/ ProductsAggregate /\ UNCHANGED << formatVars, csvVars, severityVars, cancelVars, reviewVars >>
  \/ streamCsvThen
  \/ streamCsvCatch

CsvLiveNext ==
  \/ \E q \in CsvQueries, columns \in ColumnChoices : postInternalAnalyticsExport(q, columns)
  \/ CsvProgress
  \/ CsvRespond

\* The export, with a data store that answers every aggregate and an event
\* loop that runs every settled promise's callback.
CsvLiveSpec == CsvLiveInit /\ [][CsvLiveNext]_vars /\ WF_vars(CsvProgress)

\* No analytics request, audit, export or formatPeriod call is under way.
NoAnalytics ==
  /\ pc = "idle"
  /\ query = NoQuery
  /\ series = << >>
  /\ cancelledSeries = << >>
  /\ productsSold = << >>
  /\ analytics = Absent
  /\ errorCode = ""
  /\ aggregateCalls = 0
  /\ auditPc = "idle"
  /\ discrepancies = << >>
  /\ validationResult = Absent
  /\ alerts = << >>
  /\ interleaved = 0
  /\ formatInput = << >>
  /\ formatOutput = << >>
  /\ csvPc = "idle"
  /\ csvColumns = << >>
  /\ csvStream = << >>

\* The orders of the audits of small amounts: items without unitPrice, so
\* that every stored total is the sum of quantity times unit price; one
\* order of 9.004 and one of 0.104.
ConsistentItemLists ==
  { << Pizza(2, 4000, Absent), Soda(1, 1004, Absent) >>,
    << Soda(1, 104, Absent) >> }

\* The audit against a store of such orders.
AuditCentsNext ==
  \/ (\E items \in ConsistentItemLists : createOrder(items))
       /\ UNCHANGED << formatVars, csvVars, severityVars, cancelVars, reviewVars >>
  \/ (\E i \in 1..MaxOrders, st \in OrderStatus : updateOrderStatus(i, st))
       /\ UNCHANGED << formatVars, csvVars, severityVars, cancelVars, reviewVars >>
  \/ Tick /\ UNCHANGED << formatVars, csvVars, severityVars, cancelVars, reviewVars >>
  \/ (\E q \in AuditQueries : validateAnalyticsConsistency(q))
       /\ UNCHANGED << formatVars, csvVars, severityVars, cancelVars, reviewVars >>
  \/ SeriesAggregate /\ UNCHANGED << formatVars, csvVars, severityVars, cancelVars, reviewVars >>
  \/ CancelledAggregate /\ UNCHANGED << formatVars, csvVars, severityVars, cancelVars, reviewVars >>
  \/ ProductsAggregate /\ UNCHANGED << formatVars, csvVars, severityVars, cancelVars, reviewVars >>
  \/ ReceiveReport /\ UNCHANGED << formatVars, csvVars, severityVars, cancelVars, reviewVars >>
  \/ validateCompletedOrdersCount
       /\ UNCHANGED << formatVars, csvVars, severityVars, cancelVars, reviewVars >>
  \/ validateCancelledOrdersCount
       /\ UNCHANGED << formatVars, csvVars, severityVars, cancelVars, reviewVars >>
  \/ validateTotalRevenue /\ UNCHANGED << formatVars, csvVars, severityVars, cancelVars, reviewVars >>
  \/ validateLostRevenue /\ UNCHANGED << formatVars, csvVars, severityVars, cancelVars, reviewVars >>
  \/ RespondValidate /\ UNCHANGED << formatVars, csvVars, severityVars, cancelVars, reviewVars >>

AuditCentsSpec == Init /\ [][AuditCentsNext]_vars

\* calculateDiscrepancy is a pure function: every behaviour is one call of it.
SeverityInit ==
  /\ now = [day |-> BaseDay, ms |-> 0]
  /\ orders = << >>
  /\ NoAnalytics
  /\ \E c \in SeverityCalls : severityInput = << c >>
  /\ severityOutput = << >>
  /\ NoCancellation
  /\ NoReview

SeverityNext == CallCalculateDiscrepancy

SeveritySpec == SeverityInit /\ [][SeverityNext]_vars

\* The order service: up to MaxUpdatedOrders orders are created, their
\* status is updated, and up to MaxCalls cancelOrder calls run at a time.
OrderNext ==
  \/ (Len(orders) < MaxUpdatedOrders /\ \E items \in CancelItemLists : createOrder(items))
       /\ UNCHANGED << formatVars, csvVars, severityVars, cancelVars, reviewVars >>
  \/ (\E i \in 1..MaxUpdatedOrders, st \in ALL_ORDER_STATES : updateOrderStatus(i, st))
       /\ UNCHANGED << formatVars, csvVars, severityVars, cancelVars, reviewVars >>
  \/ (\E c \in Calls, i \in 1..(MaxUpdatedOrders + 1), by \in Callers : cancelOrder(c, i, by))
       /\ UNCHANGED << now, interleaved, analyticsVars >>
  \/ CancelSteps /\ UNCHANGED << now, interleaved, analyticsVars >>

OrderSpec == Init /\ [][OrderNext]_vars

\* The order service when nothing but cancelOrder touches a stored order.
CancelNext ==
  \/ (\E items \in CancelItemLists : createOrder(items))
       /\ UNCHANGED << formatVars, csvVars, severityVars, cancelVars, reviewVars >>
  \/ (\E c \in Calls, i \in OrderIds, by \in Callers : cancelOrder(c, i, by))
       /\ UNCHANGED << now, interleaved, analyticsVars >>
  \/ CancelSteps /\ UNCHANGED << now, interleaved, analyticsVars >>

CancelSpec == Init /\ [][CancelNext]_vars

\* The review service: reviews are created and moderated.
ReviewNext ==
  \/ createReview
       /\ UNCHANGED << storeVars, callVars, auditVars, formatVars, csvVars, severityVars, cancelVars >>
  \/ (\E id \in 1..(MaxReviews + 1), status \in RequestedStatuses : changeReviewStatus(id, status))
       /\ UNCHANGED << storeVars, callVars, auditVars, formatVars, csvVars, severityVars, cancelVars >>
  \/ findReview
       /\ UNCHANGED << storeVars, callVars, auditVars, formatVars, csvVars, severityVars, cancelVars >>
  \/ updateStatus
       /\ UNCHANGED << storeVars, callVars, auditVars, formatVars, csvVars, severityVars, cancelVars >>
  \/ changeReviewStatusDone
       /\ UNCHANGED << storeVars, callVars, auditVars, formatVars, csvVars, severityVars, cancelVars >>

ReviewSpec == Init /\ [][ReviewNext]_vars

\* ================================================================= claims
RevenueClass == {"ready", "completed", "delivered"}
CancelledClass == {"cancelled"}

\* The orders of the store created on a day of the queried window.
InWindow(q) == { i \in DOMAIN orders :
                   q.from <= orders[i].createdAt.day /\ orders[i].createdAt.day <= q.to }

\* The store without order i.
Without(os, i) == [ j \in (DOMAIN os) \ {i} |-> os[j] ]

SeriesStep == pc = "series" /\ pc' = "cancelled"
CancelledStep == pc = "cancelled" /\ pc' # "cancelled"
ProductsStep == pc = "products" /\ pc' = "returned"

\* C1: whenever a running getAnalytics call has a window of more than
\* MaxRangeMonths 30-day months (its whole days from..to cover at least
\* MaxRangeDays + 1 days), it has thrown RANGE_EXCEEDED and has issued no
\* aggregate call.
C1_RangeExceededBeforeAnyQuery ==
  (pc # "idle" /\ query.to - query.from + 1 > MaxRangeMonths * DaysPerMonth)
    => (pc = "threw" /\ errorCode = "RANGE_EXCEEDED" /\ aggregateCalls = 0)

C1_Witness ==
  /\ pc = "threw" /\ errorCode = "RANGE_EXCEEDED" /\ aggregateCalls = 0
  /\ query.to - query.from = MaxRangeMonths * DaysPerMonth
  /\ Len(orders) > 0

C3_NullIffNoData ==
  [][ /\ SeriesStep =>
           (series' = << >> <=>
              ~ \E i \in InWindow(query) : orders[i].status \in RevenueClass)
      /\ CancelledStep =>
           /\ cancelledSeries' = << >> <=>
                ~ \E i \in InWindow(query) : orders[i].status \in CancelledClass
           /\ (pc' = "returned" /\ analytics' = Absent)
                <=> (series = << >> /\ cancelledSeries' = << >>)
           /\ pc' \in {"returned", "products"}
      /\ ProductsStep => Len(analytics') = 1
    ]_vars

\* null is returned although the store holds orders inside the window.
C3_Witness ==
  /\ pc = "returned" /\ analytics = Absent
  /\ InWindow(query) # {}

\* For C4: the revenue of an order, line item by line item.
LineRevenue(item) ==
  item.quantity * (IF item.unitPrice # Absent THEN item.unitPrice[1] ELSE item.price)
OrderRevenue(o) == SumFn([j \in DOMAIN o.items |-> LineRevenue(o.items[j])], DOMAIN o.items)

\* The revenue-class orders of the window whose bucket key is k.
BucketOrders(q, k) ==
  { i \in InWindow(q) : /\ orders[i].status \in RevenueClass
                        /\ PeriodExpr(q.groupBy, orders[i].createdAt) = k }

\* C4: the series aggregate returns one point per bucket of the window that
\* holds a revenue-class order; the point's order count is the number of
\* those orders and its revenue the sum of quantity x unit price over their
\* line items (unitPrice when present, otherwise price).
C4_SeriesPerBucket ==
  [][ SeriesStep =>
        /\ \A n \in DOMAIN series' :
             /\ series'[n].totalOrders = Cardinality(BucketOrders(query, series'[n]._id))
             /\ series'[n].totalOrders > 0
             /\ series'[n].totalRevenue =
                  SumFn([i \in BucketOrders(query, series'[n]._id) |-> OrderRevenue(orders[i])],
                        BucketOrders(query, series'[n]._id))
        /\ \A i \in InWindow(query) : orders[i].status \in RevenueClass =>
             \E n \in DOMAIN series' :
                series'[n]._id = PeriodExpr(query.groupBy, orders[i].createdAt)
    ]_vars

\* A bucket with two orders, one of them with a unitPrice, in a window that
\* starts on the creation day of one and ends on the creation day of another.
C4_Witness ==
  /\ pc = "cancelled"
  /\ \E n \in DOMAIN series : series[n].totalOrders = 2
  /\ \E i, j \in InWindow(query) :
       /\ orders[i].createdAt = FromDate(query.from)
       /\ orders[j].createdAt = ToDate(query.to)
       /\ orders[i].items[1].unitPrice # Absent

SeqSum(s, field(_)) == SumFn([i \in DOMAIN s |-> field(s[i])], DOMAIN s)

\* C5 (as amended): in every response the summary's counts are the sums of
\* the returned points' counts, and its totalRevenue and lostRevenue are the
\* sums of the unrounded per-bucket amounts of the two aggregates, rounded
\* to two decimals; both series are returned point for point.
C5_SummaryIsRoundedRawSum ==
  (pc = "returned" /\ Len(analytics) = 1) =>
    LET r == analytics[1] IN
      /\ r.summary.totalOrders = SeqSum(r.series, LAMBDA x : x.totalOrders)
      /\ r.summary.totalCancelled = SeqSum(r.cancelledSeries, LAMBDA x : x.totalCancelled)
      /\ r.summary.totalRevenue = Round2(SeqSum(series, LAMBDA x : x.totalRevenue))
      /\ r.summary.lostRevenue = Round2(SeqSum(cancelledSeries, LAMBDA x : x.lostRevenue))
      /\ Len(r.series) = Len(series) /\ Len(r.cancelledSeries) = Len(cancelledSeries)

\* A response with two revenue points and a revenue that is not whole cents.
C5_Witness ==
  /\ pc = "returned" /\ Len(analytics) = 1
  /\ Len(analytics[1].series) = 2
  /\ \E n \in DOMAIN series : series[n].totalRevenue % 10 # 0

\* C5 as stated: the summary's amounts are the sums of the returned points.
C5_SummaryIsSumOfReturned ==
  (pc = "returned" /\ Len(analytics) = 1) =>
    LET r == analytics[1] IN
      /\ r.summary.totalOrders = SeqSum(r.series, LAMBDA x : x.totalOrders)
      /\ r.summary.totalCancelled = SeqSum(r.cancelledSeries, LAMBDA x : x.totalCancelled)
      /\ r.summary.totalRevenue = Round2(SeqSum(r.series, LAMBDA x : x.totalRevenue))
      /\ r.summary.lostRevenue = Round2(SeqSum(r.cancelledSeries, LAMBDA x : x.lostRevenue))

\* a is created before b.
Before(a, b) == TsLeq(a.createdAt, b.createdAt) /\ a.createdAt # b.createdAt

\* The keys of s, a sequence of points keyed by key(_), strictly increase,
\* and every order of an earlier bucket is created before every order of a
\* later bucket.
SortedChronologically(s, key(_), groupBy) ==
  \A m, n \in DOMAIN s : m < n =>
    /\ LexLess(key(s[m]), key(s[n]))
    /\ \A a, b \in DOMAIN orders :
         ( /\ PeriodExpr(groupBy, orders[a].createdAt) = key(s[m])
           /\ PeriodExpr(groupBy, orders[b].createdAt) = key(s[n]) )
         => Before(orders[a], orders[b])

\* C10: in the result of both aggregates and in both returned series the
\* period keys strictly increase in string order, and string order is the
\* chronological order of the buckets, for every granularity.
C10_PeriodsIncrease ==
  /\ SortedChronologically(series, LAMBDA x : x._id, query.groupBy)
  /\ SortedChronologically(cancelledSeries, LAMBDA x : x._id, query.groupBy)
  /\ Len(analytics) = 1 =>
       /\ SortedChronologically(analytics[1].series, LAMBDA x : x.period, query.groupBy)
       /\ SortedChronologically(analytics[1].cancelledSeries, LAMBDA x : x.period, query.groupBy)

\* A weekly series whose two buckets lie on either side of the ISO year
\* boundary: an order of 2024-12-28 (week 2024-52) and one of 2024-12-30
\* (week 2025-01).
C10_Witness ==
  /\ pc = "returned" /\ Len(analytics) = 1
  /\ query.groupBy = "week"
  /\ Len(analytics[1].series) = 2
  /\ analytics[1].series[1].period = WeekPeriodExpression(FromDate(DaysFromCivil(2024, 12, 28)))
  /\ analytics[1].series[2].period = WeekPeriodExpression(FromDate(DaysFromCivil(2024, 12, 30)))

\* ------------------------------------------------------------ audit claims
Finished == auditPc = "returned" /\ validationResult # Absent
RevenueStep == auditPc = "totalRevenue" /\ auditPc' = "lostRevenue"
LostStep == auditPc = "lostRevenue" /\ auditPc' = "returned"

\* reported and actual differ by a nonzero amount at or below the tolerance.
WithinTolerance(reported, actual) ==
  /\ reported # actual
  /\ 100 * Abs(actual - reported) <= TOLERANCE_PERCENTAGE * actual

Last(ds) == ds[Len(ds)]

\* C6: the result of a finished audit has isValid = FALSE exactly when one
\* of its recorded discrepancies has severity HIGH or CRITICAL.
C6_InvalidIffHighOrCritical ==
  Finished =>
    ( validationResult[1].isValid = FALSE
        <=> \E i \in DOMAIN validationResult[1].discrepancies :
               validationResult[1].discrepancies[i].severity \in {"HIGH", "CRITICAL"} )

\* C7 (as amended): a monetary metric whose reported value differs from
\* the recomputed one by a nonzero amount at or below the tolerance adds
\* nothing to the discrepancy list, so it makes isValid neither false nor
\* true and raises no alert: the result is the one the discrepancies
\* recorded before it give.
C7_SmallMonetaryDifferenceNotRecorded ==
  [][ /\ ( /\ RevenueStep
           /\ WithinTolerance(analytics[1].summary.totalRevenue,
                              ActualTotal(REVENUE_STATUSES)) )
         => discrepancies' = discrepancies
      /\ ( /\ LostStep
           /\ WithinTolerance(analytics[1].summary.lostRevenue,
                              ActualTotal(CANCELLED_STATUSES)) )
         => /\ discrepancies' = discrepancies
            /\ validationResult'[1].discrepancies = discrepancies
            /\ validationResult'[1].isValid =
                 ~ \E i \in DOMAIN discrepancies :
                      discrepancies[i].discrepancyPercentage > 100 * TOLERANCE_PERCENTAGE
            /\ (alerts' # alerts => \E i \in DOMAIN discrepancies :
                                       discrepancies[i].severity = "CRITICAL")
    ]_vars

\* The revenue check has just passed over a reported revenue that differs
\* from the recomputed one by less than the tolerance.
C7_Witness ==
  /\ auditPc = "lostRevenue"
  /\ WithinTolerance(analytics[1].summary.totalRevenue, ActualTotal(REVENUE_STATUSES))
  /\ \A i \in DOMAIN discrepancies : discrepancies[i].metric # "Ingresos Totales"

\* C7 as stated: such a difference is recorded with severity LOW or MEDIUM.
C7_SmallMonetaryDifferenceRecorded ==
  [][ /\ ( /\ RevenueStep
           /\ WithinTolerance(analytics[1].summary.totalRevenue,
                              ActualTotal(REVENUE_STATUSES)) )
         => /\ Len(discrepancies') = Len(discrepancies) + 1
            /\ Last(discrepancies').metric = "Ingresos Totales"
            /\ Last(discrepancies').severity \in {"LOW", "MEDIUM"}
      /\ ( /\ LostStep
           /\ WithinTolerance(analytics[1].summary.lostRevenue,
                              ActualTotal(CANCELLED_STATUSES)) )
         => /\ Len(discrepancies') = Len(discrepancies) + 1
            /\ Last(discrepancies').metric = "Ingresos Perdidos"
            /\ Last(discrepancies').severity \in {"LOW", "MEDIUM"}
    ]_vars

\* C8: a recorded discrepancy whose recomputed value is 0 and whose
\* reported value is not 0 does not carry a percent difference of 0.
C8_ZeroActualNotZeroPercent ==
  \A i \in DOMAIN discrepancies :
    (discrepancies[i].actualValue = 0 /\ discrepancies[i].reportedValue # 0)
      => discrepancies[i].discrepancyPercentage # 0

Formatted == formatInput # << >> /\ formatOutput # << >>

\* The day number of the local date of the call at hand.
FormatLocalDay ==
  LET l == LocalDate(formatInput[1].date, formatInput[1].tz)
  IN  DaysFromCivil(l.y, l.m, l.d)

\* C11: the week strategy's formatPeriod returns the ISO week-numbering
\* year and the ISO week number of the date (as the process reads it), so
\* that 2024-12-30 formats to 2025-01.
C11_WeekFormatIsIsoYearWeek ==
  (Formatted /\ formatInput[1].groupBy = "week") =>
    formatOutput[1] =
      Pad(IsoWeekDate(FormatLocalDay).year, 4) \o <<Dash>>
        \o Pad(IsoWeekDate(FormatLocalDay).week, 2)

\* C12: for every granularity and timestamp, formatPeriod returns the key
\* the grouping expression of the same strategy gives an order created at
\* that timestamp.
C12_FormatEqualsExpression ==
  Formatted =>
    formatOutput[1] = PeriodExpr(formatInput[1].groupBy, formatInput[1].date)

\* ------------------------------------------------------ validation claims
\* The window from..to is n calendar years long, both days included.
YearsLong(q, n) == q.from = YearsBefore(q.to, n) + 1

\* C13: a call whose window is exactly ten years long (the maximum the
\* policy names) does not throw, and a call whose window is one day longer
\* throws RANGE_EXCEEDED.
C13_TenYearsAccepted ==
  /\ (pc # "idle" /\ YearsLong(query, MaxRangeYears)) => pc # "threw"
  /\ (pc # "idle" /\ YearsLong([query EXCEPT !.from = @ + 1], MaxRangeYears))
       => (pc = "threw" /\ errorCode = "RANGE_EXCEEDED")

\* C15: every call whose from or to day lies after the current day is
\* rejected, with the code FUTURE_DATE_NOT_ALLOWED unless the range check
\* rejected it first.  (The clock only moves forward, so a day that is in
\* the future now was so at the call.)
C15_FutureDateRejected ==
  (pc # "idle" /\ (query.from > now.day \/ query.to > now.day))
    => /\ pc = "threw"
       /\ errorCode \in {"FUTURE_DATE_NOT_ALLOWED", "RANGE_EXCEEDED"}

\* C16: every call with from after to is rejected, with the code
\* INVALID_DATE_RANGE unless the future-date check rejected it first, so
\* from <= to in every call that reaches the order store.
C16_FromAfterToRejected ==
  /\ (pc # "idle" /\ query.from > query.to)
       => /\ pc = "threw"
          /\ errorCode \in {"INVALID_DATE_RANGE", "FUTURE_DATE_NOT_ALLOWED"}
  /\ aggregateCalls > 0 => query.from <= query.to

\* C17: when the series query returned nothing, the call issues no further
\* query (the series query stays its only one); a call that issued the
\* products query, its third, had a series query that returned something.
C17_NoQueryAfterEmptySeries ==
  /\ (pc \in {"cancelled", "products", "returned"} /\ series = << >>)
       => aggregateCalls = 1
  /\ aggregateCalls = 3 => series # << >>

\* ------------------------------------------------------------- CSV claims
\* The export reached the exporter: getAnalytics returned and the stream ended.
Exported == csvPc = "ended" /\ pc = "returned"

\* The columns asked for are what the request type allows: names.
ColumnNames(columns) == \A c \in DOMAIN columns : columns[c].isString

\* The keys of the header: the columns asked for, or the seven by default.
HeaderKeys ==
  IF csvColumns = << >> THEN DefaultColumns
  ELSE [ c \in DOMAIN csvColumns |-> csvColumns[c].key ]

\* The line shows the series item and the product under every column of
\* theirs that the header names.
RowShows(line, seriesItem, product) ==
  \A c \in DOMAIN HeaderKeys :
    /\ HeaderKeys[c] = "period" => line[c].value = seriesItem.period
    /\ HeaderKeys[c] = "totalOrders" => line[c].value = seriesItem.totalOrders
    /\ HeaderKeys[c] = "totalRevenue" => line[c].value = seriesItem.totalRevenue
    /\ HeaderKeys[c] = "productId" => line[c].value = product.productId
    /\ HeaderKeys[c] = "productName" => line[c].value = product.name
    /\ HeaderKeys[c] = "quantity" => line[c].value = product.quantity

\* C14: an export whose getAnalytics threw RANGE_EXCEEDED does not end its
\* stream as a finished CSV: the failure reaches the caller.
C14_RangeExceededNotDowngraded ==
  ~(csvPc = "ended" /\ errorCode = "RANGE_EXCEEDED")

\* C18: the export of a response with N series points and M products (the
\* columns being names) is one text of 1 + N*M lines: the header, then for
\* each series point in turn one line for each product in turn.
C18_HeaderPlusCrossProduct ==
  (Exported /\ analytics # Absent /\ ColumnNames(csvColumns)) =>
    LET n == Len(analytics[1].series)
        m == Len(analytics[1].productsSold)
    IN  /\ Len(csvStream) = 1
        /\ Len(csvStream[1].lines) = 1 + n * m
        /\ \A c \in DOMAIN HeaderKeys : csvStream[1].lines[1][c].value = HeaderKeys[c]
        /\ \A i \in 1..n, j \in 1..m :
             RowShows(csvStream[1].lines[1 + (i - 1) * m + j],
                      analytics[1].series[i], analytics[1].productsSold[j])

\* Two series points and two products were exported in five lines.
C18_Witness ==
  /\ Exported
  /\ analytics # Absent
  /\ ColumnNames(csvColumns)
  /\ Len(analytics[1].series) = 2
  /\ Len(analytics[1].productsSold) = 2
  /\ Len(csvStream[1].lines) = 5

\* C19: every stream the export ended starts with U+FEFF.
C19_StartsWithBom ==
  csvPc = "ended" => (csvStream # << >> /\ csvStream[1].bom)

\* C20: when getAnalytics returned null (the columns being names) the export
\* is the header of the resolved columns and one placeholder line, naming
\* the window and "No data available"; no stream ends without a line.
C20_HeaderAndPlaceholder ==
  /\ (Exported /\ analytics = Absent /\ ColumnNames(csvColumns)) =>
       /\ Len(csvStream) = 1
       /\ Len(csvStream[1].lines) = 2
       /\ Len(csvStream[1].lines[1]) = Len(HeaderKeys)
       /\ \A c \in DOMAIN HeaderKeys :
            /\ csvStream[1].lines[1][c].value = HeaderKeys[c]
            /\ HeaderKeys[c] = "productName" =>
                 csvStream[1].lines[2][c].value = "No data available"
            /\ HeaderKeys[c] = "period" =>
                 csvStream[1].lines[2][c].value =
                   DayPeriodExpression(FromDate(query.from)) \o ToWord
                     \o DayPeriodExpression(FromDate(query.to))
            /\ HeaderKeys[c] \in {"totalOrders", "totalRevenue", "quantity"} =>
                 csvStream[1].lines[2][c].value = 0
  /\ csvPc = "ended" =>
       (csvStream # << >> /\ \A k \in DOMAIN csvStream : csvStream[k].lines # << >>)

\* A null result was exported under three chosen columns.
C20_Witness ==
  /\ Exported
  /\ analytics = Absent
  /\ csvColumns = << Col("period"), Col("productName"), Col("quantity") >>
  /\ Len(csvStream[1].lines) = 2
  /\ csvStream[1].lines[2][2].value = "No data available"

Classified == severityInput # << >> /\ severityOutput # << >>

\* The call's difference and recomputed value: the percent difference is
\* 100 * SeverityDiff / SeverityActual, and 0 when the recomputed value is 0
\* (what calculateDiscrepancy takes it to be).
SeverityDiff ==
  IF severityInput[1].actualValue > 0
    THEN Abs(severityInput[1].reportedValue - severityInput[1].actualValue)
    ELSE 0
SeverityActual ==
  IF severityInput[1].actualValue > 0 THEN severityInput[1].actualValue ELSE 1

RecordsOf(o) == { i \in DOMAIN cancellations : cancellations[i].orderId = o }
EventsOf(o) == { i \in DOMAIN events : events[i].orderId = o }

\* Call c saves its order in this step.
SavesOrder(c) == cancelCalls[c].pc = "order" /\ cancelCalls'[c].pc = "publish"

\* C23: a cancelOrder call turns an order to cancelled only when the status
\* the order has at that moment is one its caller may cancel from, and a
\* call that finds a status its caller may not cancel from fails and leaves
\* the order, the cancellation records and the events as they are.
C23_CancelOnlyFromCancellable ==
  [][\A c \in Calls :
       /\ (SavesOrder(c) /\ orders[cancelCalls[c].orderId].status # "cancelled")
            => orders[cancelCalls[c].orderId].status
                 \in allowedStates(cancelCalls[c].cancelledBy)
       /\ (/\ cancelCalls[c].pc = "find"
           /\ cancelCalls'[c].pc # "find"
           /\ cancelCalls[c].orderId \in DOMAIN orders
           /\ orders[cancelCalls[c].orderId].status
                \notin (allowedStates(cancelCalls[c].cancelledBy) \cup {"cancelled"}))
            => /\ cancelCalls'[c].pc = "threw"
               /\ UNCHANGED << orders, cancellations, events >>]_vars

\* C24: a call that finds its order cancelled returns it, saving no record
\* and publishing no event, and no order ever has more than one
\* cancellation record or more than one order.cancelled event.
C24_AtMostOneRecordAndEvent ==
  /\ \A o \in DOMAIN orders :
       Cardinality(RecordsOf(o)) <= 1 /\ Cardinality(EventsOf(o)) <= 1
  /\ \A c \in Calls :
       (cancelCalls[c].pc = "returned" /\ cancelCalls[c].status = "cancelled")
         => cancelCalls[c].error = ""

\* C25: a call whose order has another status at its save than at its read
\* fails with the conflict error, and leaves the stored status and the
\* events as they are.
C25_ConflictOnConcurrentChange ==
  [][\A c \in Calls :
       (/\ cancelCalls[c].pc = "order"
        /\ cancelCalls'[c].pc # "order"
        /\ orders[cancelCalls[c].orderId].status # cancelCalls[c].status)
         => /\ cancelCalls'[c].pc = "threw"
            /\ cancelCalls'[c].error = "Conflicto detectado"
            /\ UNCHANGED << orders, events >>]_vars

\* C26: no step changes the status of an order that is completed, delivered
\* or cancelled.
C26_FinalStatesStay ==
  [][\A o \in DOMAIN orders :
       orders[o].status \in FINAL_STATES => orders'[o].status = orders[o].status]_vars

\* C29: whenever no call is between the save of its record and the save of
\* its order, every cancellation record is of an order stored as cancelled.
C29_RecordOnlyOfCancelledOrder ==
  (\A c \in Calls : cancelCalls[c].pc # "order")
    => \A i \in DOMAIN cancellations : orders[cancellations[i].orderId].status = "cancelled"

\* C30: when a call has returned the order, the order's cancelled status
\* was saved by cancelOrder, and no call is about to publish for it, its
\* order.cancelled event has been published.
C30_CancelledOrderHasEvent ==
  \A c \in Calls :
    (/\ cancelCalls[c].pc = "returned"
     /\ cancelCalls[c].orderId \in cancelSaves
     /\ \A d \in Calls :
          ~(cancelCalls[d].pc = "publish" /\ cancelCalls[d].orderId = cancelCalls[c].orderId))
      => EventsOf(cancelCalls[c].orderId) # {}

\* ------------------------------------------------------------ review claim
\* C27: the status of a review changes only from pending to approved, from
\* approved to hidden or from pending to hidden, and a call that asks for
\* any other change of a stored review's status is refused and changes
\* nothing.
C27_OnlyModerationTransitions ==
  [][/\ \A id \in DOMAIN reviews :
          reviews'[id] # reviews[id]
            => << reviews[id], reviews'[id] >> \in ValidReviewTransitions
     /\ (/\ reviewCall.pc = "update"
         /\ reviewCall'.pc # "update"
         /\ reviewCall.status # reviews[reviewCall.id]
         /\ << reviews[reviewCall.id], reviewCall.status >> \notin ValidReviewTransitions)
          => (reviewCall'.pc = "threw" /\ UNCHANGED reviews)]_vars

\* ------------------------------------------------------------- audit claim
\* Every stored total is the sum of quantity times unit price of its items.
TotalsConsistent == \A i \in DOMAIN orders : orders[i].total = OrderRevenue(orders[i])

\* C28: an audit that has finished on a store with consistent totals,
\* which no operation wrote to while the audit ran, found the report valid
\* and recorded no discrepancy.
C28_NoFalsePositive ==
  (Finished /\ interleaved = 0 /\ TotalsConsistent) =>
    /\ validationResult[1].isValid
    /\ validationResult[1].discrepancies = << >>
    /\ alerts = << >>

\* Rounding to cents moves neither the revenue nor the lost revenue of the
\* audited window by more than the tolerance.
RoundingWithinTolerance ==
  \A statuses \in {REVENUE_STATUSES, CANCELLED_STATUSES} :
    100 * Abs(Round2(ActualTotal(statuses)) - ActualTotal(statuses))
      <= TOLERANCE_PERCENTAGE * ActualTotal(statuses)

\* C28, amended: such an audit, when rounding to cents stays within the
\* tolerance, found the report valid and recorded no discrepancy.
C28_NoFalsePositiveWithinRounding ==
  (Finished /\ interleaved = 0 /\ TotalsConsistent /\ RoundingWithinTolerance) =>
    /\ validationResult[1].isValid
    /\ validationResult[1].discrepancies = << >>
    /\ alerts = << >>

\* Such an audit finished on a revenue of 9.004, reported as 9.00.
C28_Witness ==
  /\ Finished
  /\ interleaved = 0
  /\ TotalsConsistent
  /\ RoundingWithinTolerance
  /\ ActualTotal(REVENUE_STATUSES) = 9004
  /\ analytics # Absent
  /\ analytics[1].summary.totalRevenue = 9000
  /\ validationResult[1].isValid
  /\ validationResult[1].discrepancies = << >>

====
